---- MODULE Spec2Model ----
(***************************************************************************)
(* Model of the Jenkins pipelines consolidator: JenkinsAPI, GitLabAPI,     *)
(* helpers and main().                                                     *)
(*                                                                         *)
(* Python strings are sequences of tokens.  A token is a TLA+ string that  *)
(* stands for its own characters: a punctuation character (":", "/", "'",  *)
(* ...), a white-space character (" ", "\n") or a word.  The string a      *)
(* sequence denotes is the concatenation of its tokens.  Literal strings   *)
(* of the code such as "NA" are one-token sequences.  None is a value      *)
(* outside the strings.                                                    *)
(***************************************************************************)
EXTENDS Integers, Sequences, FiniteSets, TLC

VARIABLES
    pc,                 \* position of the run in main() / get_jenkinsfile_content
    root_status,        \* status of the answer to the root job-list query, 0 before it
    status_code,        \* status of the last answer of Jenkins, 0 if there was none
    jobs,               \* main: the list returned by fetch_jobs
    index,              \* main: position of the current job in jobs (from 1)
    processed_jobs,     \* main: the rows appended so far
    pipeline_type,      \* main: locals of the loop body
    scm_url,
    jenkinsfile_path,
    branch_specifier,
    jenkinsfile_content,
    is_modular,
    shared_library,
    module_name,
    last_run,
    now,                \* the last reading of datetime.now()
    branches_to_try,    \* get_jenkinsfile_content: candidate branches
    attempt,            \* get_jenkinsfile_content: position in branches_to_try
    response,           \* get_jenkinsfile_content: the last response received
    requests,           \* every HTTP request issued for a job, in order
    answers,            \* history: the answers to the requests of the current job
    csv_writes,         \* the contents written by save_to_csv, in order
    fn_in,              \* argument of the pure function under study
    fn_out              \* results of its successive applications

fnVars == <<fn_in, fn_out>>

jobLocals == <<pipeline_type, scm_url, jenkinsfile_path, branch_specifier,
               jenkinsfile_content, is_modular, shared_library, module_name,
               last_run, now>>

gjcLocals == <<branches_to_try, attempt, response>>

mainVars == <<pc, root_status, status_code, jobs, index, processed_jobs, jobLocals, gjcLocals,
              requests, answers, csv_writes>>

vars == <<mainVars, fnVars>>

-----------------------------------------------------------------------------
(* Strings *)

None == <<"<None>">>

NA == <<"NA">>

IsStr(v) == v # None

StartsWith(s, p) == Len(s) >= Len(p) /\ SubSeq(s, 1, Len(p)) = p

\* Python's  tok in s  for a literal that is one token
Contains(s, tok) == \E i \in 1..Len(s) : s[i] = tok

\* all sequences over alphabet A of length at most n
SeqsUpTo(A, n) == UNION {[1..k -> A] : k \in 0..n}

-----------------------------------------------------------------------------
(* GitLabAPI.convert_scm_url *)

HttpsPrefix == <<"https", ":", "/", "/">>

GitAt == <<"git", "@">>

\* Where  (.*?):  ends when the group starts at g: the first ":" at or after
\* g, provided no line break comes before it ("." does not match "\n");
\* 0 when there is no match.
ColonAfter(s, g) ==
    LET stops == {i \in g..Len(s) : s[i] \in {":", "\n"}}
    IN  IF stops = {} THEN 0
        ELSE LET i == CHOOSE j \in stops : \A k \in stops : j <= k
             IN  IF s[i] = ":" THEN i ELSE 0

\* re.sub(r'(?:git@)?(.*?):', r'https://\1/', s) from position p on: every
\* non-overlapping match is replaced, scanning left to right.
RECURSIVE ReSubUrl(_, _)
ReSubUrl(s, p) ==
    IF p > Len(s) THEN <<>>
    ELSE LET hasGit  == StartsWith(SubSeq(s, p, Len(s)), GitAt)
             withGit == IF hasGit THEN ColonAfter(s, p + Len(GitAt)) ELSE 0
             g       == IF withGit # 0 THEN p + Len(GitAt) ELSE p
             q       == IF withGit # 0 THEN withGit ELSE ColonAfter(s, p)
         IN  IF q = 0
             THEN <<s[p]>> \o ReSubUrl(s, p + 1)
             ELSE HttpsPrefix \o SubSeq(s, g, q - 1) \o <<"/">> \o ReSubUrl(s, q + 1)

\* the same function without the early return for https:// URLs
convert_scm_url_always_sub(url) == ReSubUrl(url, 1)

convert_scm_url(url) ==
    IF StartsWith(url, HttpsPrefix) THEN url
    ELSE ReSubUrl(url, 1)

-----------------------------------------------------------------------------
(* GitLabAPI.check_modularity, parse_shared_library, parse_module_name *)

ModularLibrary == "cicd-modular-library"

NoSharedLibrary == <<"No Shared Library">>

NoModuleDetected == <<"No Module Detected">>

\* \s of the regular expressions and the characters str.strip() removes
SpaceTokens == {" ", "\n", "\t"}

\* tokens made of \w characters only
WordTokens == {"Library", "Foo", "Bar", "BigDataGenericPipeline", "x", "y", "_"}

\* @Library\(\['
LibOpen == <<"@", "Library", "(", "[", "'">>

\* '\]\)_
LibClose == <<"'", "]", ")", "_">>

\* index of the first token of s at or after p that is in T, 0 if none
FirstIn(s, p, T) ==
    LET hits == {i \in p..Len(s) : s[i] \in T}
    IN  IF hits = {} THEN 0 ELSE CHOOSE i \in hits : \A j \in hits : i <= j

\* index of the first token of s at or after p that is not in T, Len(s)+1 if none
FirstNotIn(s, p, T) ==
    LET hits == {i \in p..Len(s) : s[i] \notin T}
    IN  IF hits = {} THEN Len(s) + 1 ELSE CHOOSE i \in hits : \A j \in hits : i <= j

\* index of the last token of s that is not in T, 0 if none
LastNotIn(s, T) ==
    LET hits == {i \in 1..Len(s) : s[i] \notin T}
    IN  IF hits = {} THEN 0 ELSE CHOOSE i \in hits : \A j \in hits : i >= j

\* str.strip(chars)
Strip(s, T) == SubSeq(s, FirstNotIn(s, 1, T), LastNotIn(s, T))

\* str.split(','): the pieces between the commas, empty pieces included
RECURSIVE SplitComma(_)
SplitComma(s) ==
    LET c == FirstIn(s, 1, {","})
    IN  IF c = 0 THEN <<s>>
        ELSE <<SubSeq(s, 1, c - 1)>> \o SplitComma(SubSeq(s, c + 1, Len(s)))

\* [lib.strip() for lib in libraries if lib.strip() != 'cicd-modular-library']
RECURSIVE StripAndExclude(_)
StripAndExclude(libs) ==
    IF libs = <<>> THEN <<>>
    ELSE LET lib == Strip(Head(libs), SpaceTokens)
         IN  (IF lib # <<ModularLibrary>> THEN <<lib>> ELSE <<>>)
                 \o StripAndExclude(Tail(libs))

\* The end of group 1 of  @Library\(\['([^\]]+?)'\]\)_  for a match that
\* starts at p, 0 if there is no match at p.  The group holds no "]", so it
\* ends two tokens before the first "]" after the opening.
LibraryGroupEnd(s, p) ==
    LET g == p + Len(LibOpen)
        e == FirstIn(s, g, {"]"})
    IN  IF /\ StartsWith(SubSeq(s, p, Len(s)), LibOpen)
           /\ e # 0
           /\ e - 2 >= g
           /\ StartsWith(SubSeq(s, e - 1, Len(s)), LibClose)
        THEN e - 2 ELSE 0

\* parse_shared_library without the exclusion of cicd-modular-library
parse_shared_library_no_exclusion(content) ==
    IF ~IsStr(content) THEN NoSharedLibrary
    ELSE LET s == content
             starts == {p \in 1..Len(s) : LibraryGroupEnd(s, p) # 0}
         IN  IF starts = {} THEN NoSharedLibrary
             ELSE LET p == CHOOSE i \in starts : \A j \in starts : i <= j
                      group == SubSeq(s, p + Len(LibOpen), LibraryGroupEnd(s, p))
                      pieces == SplitComma(group)
                      libraries == [i \in 1..Len(pieces) |-> Strip(pieces[i], SpaceTokens)]
                  IN  IF libraries # <<>> THEN Strip(libraries[1], {"'"})
                      ELSE NoSharedLibrary

parse_shared_library(content) ==
    IF ~IsStr(content) THEN NoSharedLibrary
    ELSE LET s == content
             starts == {p \in 1..Len(s) : LibraryGroupEnd(s, p) # 0}
         IN  IF starts = {} THEN NoSharedLibrary
             ELSE LET p == CHOOSE i \in starts : \A j \in starts : i <= j
                      group == SubSeq(s, p + Len(LibOpen), LibraryGroupEnd(s, p))
                      libraries == StripAndExclude(SplitComma(group))
                  IN  IF libraries # <<>> THEN Strip(libraries[1], {"'"})
                      ELSE NoSharedLibrary

\* The identifier of a match of  ^\s*(\w+)\s*\(  that starts at p, <<>> if
\* there is no match at p.  "^" holds at the start of the text and after
\* each line break; \s also matches line breaks.
ModuleMatchAt(s, p) ==
    LET w == FirstNotIn(s, p, SpaceTokens)
        v == FirstNotIn(s, w, WordTokens)
        o == FirstNotIn(s, v, SpaceTokens)
    IN  IF /\ (p = 1 \/ s[p - 1] = "\n")
           /\ v > w
           /\ o <= Len(s)
           /\ s[o] = "("
        THEN SubSeq(s, w, v - 1) ELSE <<>>

parse_module_name(content) ==
    IF ~IsStr(content) THEN NoModuleDetected
    ELSE LET s == content
             starts == {p \in 1..Len(s) : ModuleMatchAt(s, p) # <<>>}
         IN  IF starts = {} THEN NoModuleDetected
             ELSE LET group == ModuleMatchAt(s, CHOOSE i \in starts : \A j \in starts : i <= j)
                  IN  IF group # <<"Library">> THEN group ELSE NoModuleDetected

check_modularity(content) ==
    IF content = None THEN "Failed to fetch Jenkinsfile"
    ELSE IF Contains(content, ModularLibrary) THEN "True"
    ELSE "False"

-----------------------------------------------------------------------------
(* The Jenkins server as the run sees it: responses to its requests *)

\* the result of find() when the element is missing
Absent == <<"<absent>">>

\* what the XPath queries of JenkinsAPI find in a config.xml document;
\* the text of an element without content is None
ConfigDoc(definition, has_scm, has_remotes, url, script_path, has_branches, name) ==
    [wellformed |-> TRUE, definition |-> definition, has_scm |-> has_scm,
     has_user_remote_configs |-> has_remotes, url |-> url,
     script_path |-> script_path, has_branches |-> has_branches,
     branch_name |-> name]

\* a body ET.fromstring cannot parse
MalformedDoc ==
    [ConfigDoc("none", FALSE, FALSE, Absent, Absent, FALSE, Absent)
        EXCEPT !.wellformed = FALSE]

FreestyleDoc == ConfigDoc("none", FALSE, FALSE, Absent, Absent, FALSE, Absent)

ScriptDoc == ConfigDoc("CpsFlowDefinition", FALSE, FALSE, Absent, Absent, FALSE, Absent)

ScmDoc(url, script_path, name) ==
    ConfigDoc("CpsScmFlowDefinition", TRUE, TRUE, url, script_path, TRUE, name)

SshRepoUrl == <<"git", "@", "h", ":", "g", "/", "p", ".", "git">>

HttpsRepoUrl == <<"https", ":", "/", "/", "h", "/", "g", "/", "p", ".", "git">>

JenkinsfileName == <<"ci", "/", "Jenkinsfile">>

DevBranch == <<"*", "/", "dev">>

AnyBranch == <<"*", "*">>

ConfigDocs ==
    { MalformedDoc, FreestyleDoc, ScriptDoc,
      ScmDoc(SshRepoUrl, JenkinsfileName, DevBranch),
      ScmDoc(HttpsRepoUrl, JenkinsfileName, Absent),
      ScmDoc(None, JenkinsfileName, DevBranch),
      ScmDoc(HttpsRepoUrl, None, DevBranch),
      ScmDoc(HttpsRepoUrl, JenkinsfileName, None),
      [ScmDoc(SshRepoUrl, Absent, DevBranch) EXCEPT !.has_branches = FALSE] }

ConfigResponses ==
    {[raised |-> FALSE, status |-> 200, body |-> d] : d \in ConfigDocs}
    \cup {[raised |-> FALSE, status |-> 404, body |-> MalformedDoc],
          [raised |-> TRUE, status |-> 0, body |-> MalformedDoc]}

\* requests.get raises (no response), or ET.fromstring raises
ConfigRaises(r) == r.raised \/ (r.status = 200 /\ ~r.body.wellformed)

get_pipeline_type(r) ==
    IF r.status = 200
    THEN IF r.body.definition = "CpsFlowDefinition" THEN "Pipeline Script"
         ELSE IF r.body.definition = "CpsScmFlowDefinition" THEN "Pipeline Script from SCM"
         ELSE "Unknown or not a Pipeline job"
    ELSE "Unknown or not a Pipeline job"

get_scm_url(r) ==
    IF /\ r.status = 200
       /\ r.body.has_scm
       /\ r.body.has_user_remote_configs
       /\ r.body.url # Absent
    THEN r.body.url
    ELSE NA

get_jenkinsfile_path(r) ==
    IF r.status = 200 /\ r.body.script_path # Absent
    THEN r.body.script_path
    ELSE NA

\* get_branch_specifier with the default of the other getters
get_branch_specifier_default_na(r) ==
    IF /\ r.status = 200
       /\ r.body.has_scm
       /\ r.body.has_branches
       /\ r.body.branch_name # Absent
    THEN r.body.branch_name
    ELSE NA

get_branch_specifier(r) ==
    IF /\ r.status = 200
       /\ r.body.has_scm
       /\ r.body.has_branches
       /\ r.body.branch_name # Absent
    THEN r.body.branch_name
    ELSE AnyBranch

\* get_crumb: a 200 answer carries the crumb; anything else raises
CrumbResponses ==
    {[raised |-> FALSE, status |-> 200, body |-> "crumb"],
     [raised |-> FALSE, status |-> 403, body |-> "none"],
     [raised |-> TRUE, status |-> 0, body |-> "none"]}

CrumbRaises(r) == r.raised \/ r.status # 200

\* datetime of "no run": fetch_last_run returns None
NoLastRun == -1

ThresholdDays == 90

\* readings of datetime.now(), in days
Clock == {ThresholdDays + 10, ThresholdDays + 11}

\* build timestamps around the threshold, in days
BuildTimes == {c - ThresholdDays + d : c \in Clock, d \in {-1, 0, 1}}

\* lastBuild/api/json answers: a JSON object with a timestamp, a JSON object
\* without one, or a body that is not JSON
LastBuildResponses ==
    {[raised |-> FALSE, status |-> 200, json |-> "timestamp", timestamp |-> t] :
        t \in BuildTimes}
    \cup {[raised |-> FALSE, status |-> 200, json |-> "no timestamp", timestamp |-> 0],
          [raised |-> FALSE, status |-> 200, json |-> "not json", timestamp |-> 0],
          [raised |-> FALSE, status |-> 404, json |-> "not json", timestamp |-> 0],
          [raised |-> TRUE, status |-> 0, json |-> "not json", timestamp |-> 0]}

\* requests.get raises (no response), or response.json() raises
LastBuildRaises(r) == r.raised \/ (r.status = 200 /\ r.json = "not json")

fetch_last_run(r) ==
    IF r.status = 200 /\ r.json = "timestamp" THEN r.timestamp
    ELSE NoLastRun

\* is_older_than_three_months with <= in place of <
is_older_than_three_months_inclusive(last_run_, now_) ==
    last_run_ <= now_ - ThresholdDays

is_older_than_three_months(last_run_, now_) ==
    last_run_ < now_ - ThresholdDays

\* last_run.strftime("%Y-%m-%d %H:%M:%S")
Strftime(t) == <<ToString(t)>>

-----------------------------------------------------------------------------
(* JenkinsAPI.fetch_jobs *)

PathSeparator == " -> "

Leaf(parent_url, n) ==
    [name |-> <<n>>, url |-> parent_url \o <<"job", "/", n, "/">>]

Folder(parent_url, n, children) ==
    [name |-> <<n>>, url |-> parent_url \o <<"job", "/", n, "/">>, jobs |-> children]

RootUrl == <<"jenkins", "/">>

TeamUrl == RootUrl \o <<"job", "/", "team", "/">>

SubUrl == TeamUrl \o <<"job", "/", "sub", "/">>

\* job trees of the server: the jobs under the root, folders carrying their
\* children
AllTrees ==
    { <<>>,
      <<Leaf(RootUrl, "a")>>,
      <<Folder(RootUrl, "team", <<>>)>>,
      <<Leaf(RootUrl, "a"), Leaf(RootUrl, "b")>>,
      <<Folder(RootUrl, "team", <<Leaf(TeamUrl, "a")>>), Leaf(RootUrl, "a")>>,
      <<Folder(RootUrl, "team",
               <<Folder(TeamUrl, "sub", <<Leaf(SubUrl, "a")>>), Leaf(TeamUrl, "b")>>)>>,
      <<Leaf(RootUrl, "a"),
        Folder(RootUrl, "team", <<Leaf(TeamUrl, "a"), Leaf(TeamUrl, "b")>>)>> }

\* The jobs the server lists under a URL: the tree itself for the root, the
\* children of the folder with that URL otherwise
RECURSIVE FolderAt(_, _)
FolderAt(listing, url) ==
    IF listing = <<>> THEN <<>>
    ELSE LET node == Head(listing)
         IN  IF "jobs" \in DOMAIN node /\ node.url = url THEN node.jobs
             ELSE IF "jobs" \in DOMAIN node /\ StartsWith(url, node.url)
             THEN FolderAt(node.jobs, url)
             ELSE FolderAt(Tail(listing), url)

\* An entry of the answer to  api/json?tree=jobs[name,url,jobs[name,url]] :
\* a folder carries the names and URLs of its children, and these carry no
\* "jobs" key of their own
JobEntry(node) ==
    IF "jobs" \in DOMAIN node
    THEN [name |-> node.name, url |-> node.url,
          jobs |-> [i \in 1..Len(node.jobs) |->
                       [name |-> node.jobs[i].name, url |-> node.jobs[i].url]]]
    ELSE [name |-> node.name, url |-> node.url]

\* jobs_data.get("jobs", []) of the answer of the server to the query at url
JobsData(server, url) ==
    LET nodes == IF url = RootUrl THEN server ELSE FolderAt(server, url)
    IN  [i \in 1..Len(nodes) |-> JobEntry(nodes[i])]

\* a folder test that takes an empty folder for a job
IsFolder_nonempty(job) == "jobs" \in DOMAIN job /\ job.jobs # <<>>

\* line 122: a folder is an entry with nested jobs
IsFolder(job) == "jobs" \in DOMAIN job

\* fetch_jobs: the query at api_url, then the loop over the jobs of the
\* answer (ForEachJob): leaves are appended, folders are queried in turn
RECURSIVE fetch_jobs(_, _, _), ForEachJob(_, _, _)
ForEachJob(server, listing, parent_path) ==
    IF listing = <<>> THEN <<>>
    ELSE LET job == Head(listing)
             current_path == IF parent_path # <<>>
                             THEN parent_path \o <<PathSeparator>> \o job.name
                             ELSE job.name
         IN  (IF IsFolder(job)
              THEN fetch_jobs(server, job.url, current_path)
              ELSE <<[job_name |-> job.name, current_path |-> current_path,
                      job_url |-> job.url]>>)
             \o ForEachJob(server, Tail(listing), parent_path)

fetch_jobs(server, api_url, parent_path) ==
    ForEachJob(server, JobsData(server, api_url), parent_path)

MaxJobs == 2

JobTrees == {t \in AllTrees : Len(fetch_jobs(t, RootUrl, <<>>)) <= MaxJobs}

\* Answers to the root query.  fetch_jobs does not look at the status: a body
\* that is not JSON makes response.json() raise, a JSON object without a
\* "jobs" key reads as an empty listing.
RootResponses ==
    {[raised |-> FALSE, status |-> 200, json |-> "jobs", listing |-> t] : t \in JobTrees}
    \cup {[raised |-> FALSE, status |-> st, json |-> b, listing |-> <<>>] :
             st \in {401, 500}, b \in {"not json", "no jobs"}}
    \cup {[raised |-> TRUE, status |-> 0, json |-> "not json", listing |-> <<>>]}

\* requests.get raises (no response), or response.json() raises
RootRaises(r) == r.raised \/ r.json = "not json"

\* the jobs the server of the answer holds, none if the answer has no "jobs"
RootListing(r) == IF r.json = "jobs" THEN r.listing ELSE <<>>

\* current_path.split(" -> ")[0]
Team(current_path) ==
    LET c == FirstIn(current_path, 1, {PathSeparator})
    IN  IF c = 0 THEN current_path ELSE SubSeq(current_path, 1, c - 1)
-----------------------------------------------------------------------------
(* The GitLab server as the run sees it, and get_jenkinsfile_content *)

\* str.replace(pat, rep): every non-overlapping occurrence, left to right
RECURSIVE ReplaceAll(_, _, _)
ReplaceAll(s, pat, rep) ==
    IF s = <<>> THEN <<>>
    ELSE IF StartsWith(s, pat)
         THEN rep \o ReplaceAll(SubSeq(s, Len(pat) + 1, Len(s)), pat, rep)
         ELSE <<Head(s)>> \o ReplaceAll(Tail(s), pat, rep)

\* Jenkinsfiles a repository may hold
ModularWithTeamFirst ==
    LibOpen \o <<"team-lib", "'", ",", "'", ModularLibrary>> \o LibClose
        \o <<"\n", "Foo", "(", "x", ")">>

ModularWithTeamSecond ==
    LibOpen \o <<ModularLibrary, "'", ",", "'", "team-lib">> \o LibClose
        \o <<"\n", "Foo", "(", "x", ")">>

ModularOnly ==
    LibOpen \o <<ModularLibrary>> \o LibClose \o <<"\n", "Foo", "(", "x", ")">>

\* a library whose name is the text NA
ModularWithLibraryNA ==
    LibOpen \o <<"NA", "'", ",", "'", ModularLibrary>> \o LibClose
        \o <<"\n", "Foo", "(", "x", ")">>

PlainPipeline == <<"pipeline", " ", "{", "\n", "}">>

Jenkinsfiles ==
    {ModularWithTeamFirst, ModularWithTeamSecond, ModularOnly, ModularWithLibraryNA,
     PlainPipeline}

\* bodies of failed raw-file requests
ErrorBodies ==
    { <<"404", " ", "Project Not Found">>,
      <<"404", " ", "File Not Found">>,
      <<"404", " ", "Commit Not Found">>,
      <<"Commit Not Found", " ", "File Not Found", " ", "Project Not Found">>,
      <<"Commit Not Found", " ", "File Not Found">>,
      <<"500", " ", "Internal Server Error">> }

GitlabResponses ==
    {[raised |-> FALSE, status |-> 200, body |-> j] : j \in Jenkinsfiles}
    \cup {[raised |-> FALSE, status |-> st, body |-> b] :
             st \in {404}, b \in ErrorBodies}
    \cup {[raised |-> TRUE, status |-> 0, body |-> <<>>]}

\* the candidate branches with the two default branches swapped
BranchesToTry_master_first(specifier) ==
    IF specifier \in {<<"*", "*">>, <<"Any">>}
    THEN << <<"master">>, <<"main">> >>
    ELSE << ReplaceAll(specifier, <<"*", "/">>, <<>>) >>

\* lines 97-101: the candidate branches of a branch specifier
BranchesToTry(specifier) ==
    IF specifier \in {<<"*", "*">>, <<"Any">>}
    THEN << <<"main">>, <<"master">> >>
    ELSE << ReplaceAll(specifier, <<"*", "/">>, <<>>) >>

\* the sentinel mapping with the first two tests swapped
ErrorSentinel_file_first(text) ==
    IF Contains(text, "File Not Found") THEN <<"Jenkinsfile Not Found">>
    ELSE IF Contains(text, "Project Not Found") THEN <<"Project Not Found">>
    ELSE IF Contains(text, "Commit Not Found") THEN <<"Branch Not Found">>
    ELSE None

\* lines 150-155: the sentinel a failed response maps to, None if none
ErrorSentinel(text) ==
    IF Contains(text, "Project Not Found") THEN <<"Project Not Found">>
    ELSE IF Contains(text, "File Not Found") THEN <<"Jenkinsfile Not Found">>
    ELSE IF Contains(text, "Commit Not Found") THEN <<"Branch Not Found">>
    ELSE None
-----------------------------------------------------------------------------
(* main() *)

Header ==
    <<"job_name", "path", "job_url", "team", "pipeline_type", "scm_url",
      "jenkinsfile_path", "branch_specifier", "is_modular",
      "shared_library", "shared_library_module", "last_run", "Is_last_run_old">>

\* the values the locals hold before their first assignment
Unset == <<"<unset>">>

\* the history of answers when it is not kept, and at the start of a pass
NotRecorded ==
    [on |-> FALSE, config |-> <<>>, gitlab |-> <<>>, last_build |-> <<>>, clock |-> <<>>]

NoAnswersYet == [NotRecorded EXCEPT !.on = TRUE]

\* the history with answer r added to a slot, where the history is kept
Recorded(slot, r) ==
    IF answers.on THEN [answers EXCEPT ![slot] = Append(@, r)] ELSE answers

RunIdle ==
    /\ root_status = 0
    /\ status_code = 0
    /\ answers = NotRecorded
    /\ jobs = <<>>
    /\ index = 0
    /\ processed_jobs = <<>>
    /\ requests = <<>>
    /\ csv_writes = <<>>

GjcIdle ==
    /\ branches_to_try = <<>>
    /\ attempt = 0
    /\ response = [raised |-> FALSE, status |-> 0, body |-> <<>>]

MainIdle ==
    /\ RunIdle
    /\ GjcIdle
    /\ pipeline_type = "<unset>"
    /\ scm_url = Unset
    /\ jenkinsfile_path = Unset
    /\ branch_specifier = Unset
    /\ jenkinsfile_content = Unset
    /\ is_modular = "<unset>"
    /\ shared_library = Unset
    /\ module_name = Unset
    /\ last_run = NoLastRun
    /\ now = 0

FnIdle ==
    /\ fn_in = <<>>
    /\ fn_out = <<>>

Init ==
    /\ pc = "get_crumb"
    /\ MainIdle
    /\ FnIdle

\* an exception leaves main(); __main__ logs it and the process ends
Abort == pc' = "aborted"

JenkinsRequest(what) ==
    requests' = Append(requests, [job |-> index, to |-> "jenkins", what |-> what])

\* response.status_code of an answer of Jenkins
StatusCode(r) == IF r.raised THEN 0 ELSE r.status

\* JenkinsAPI.__init__ -> get_crumb
GetCrumb ==
    /\ pc = "get_crumb"
    /\ \E r \in CrumbResponses :
          /\ status_code' = StatusCode(r)
          /\ IF CrumbRaises(r) THEN Abort ELSE pc' = "fetch_jobs"
    /\ UNCHANGED <<answers, root_status, jobs, index, processed_jobs, jobLocals, gjcLocals,
                   requests, csv_writes, fnVars>>

\* line 66: jobs = jenkins_api.fetch_jobs(base_url)
FetchJobs ==
    /\ pc = "fetch_jobs"
    /\ \E r \in RootResponses :
          /\ root_status' = r.status
          /\ status_code' = StatusCode(r)
          /\ IF RootRaises(r)
             THEN Abort /\ UNCHANGED jobs
             ELSE /\ jobs' = fetch_jobs(RootListing(r), RootUrl, <<>>)
                  /\ pc' = "for"
    /\ UNCHANGED <<answers, index, processed_jobs, jobLocals, gjcLocals,
                   requests, csv_writes, fnVars>>

\* line 75: the next job of the list, or the end of the loop
ForNextJob ==
    /\ pc = "for"
    /\ IF index < Len(jobs)
       THEN /\ index' = index + 1
            /\ pc' = "get_pipeline_type"
            /\ answers' = IF answers.on THEN NoAnswersYet ELSE answers
       ELSE pc' = "save_to_csv" /\ UNCHANGED <<index, answers>>
    /\ UNCHANGED <<root_status, status_code, jobs, processed_jobs, jobLocals, gjcLocals,
                   requests, csv_writes, fnVars>>

\* line 79
GetPipelineType(Responses) ==
    /\ pc = "get_pipeline_type"
    /\ JenkinsRequest(<<"config.xml">>)
    /\ \E r \in Responses :
          /\ status_code' = StatusCode(r)
          /\ answers' = Recorded("config", r)
          /\ IF ConfigRaises(r)
             THEN Abort /\ UNCHANGED pipeline_type
             ELSE pipeline_type' = get_pipeline_type(r) /\ pc' = "get_scm_url"
    /\ UNCHANGED <<root_status, jobs, index, processed_jobs, scm_url, jenkinsfile_path,
                   branch_specifier, jenkinsfile_content, is_modular,
                   shared_library, module_name, last_run, now, gjcLocals,
                   csv_writes, fnVars>>

\* line 82
GetScmUrl(Responses) ==
    /\ pc = "get_scm_url"
    /\ JenkinsRequest(<<"config.xml">>)
    /\ \E r \in Responses :
          /\ status_code' = StatusCode(r)
          /\ answers' = Recorded("config", r)
          /\ IF ConfigRaises(r)
             THEN Abort /\ UNCHANGED scm_url
             ELSE scm_url' = get_scm_url(r) /\ pc' = "convert_scm_url"
    /\ UNCHANGED <<root_status, jobs, index, processed_jobs, pipeline_type, jenkinsfile_path,
                   branch_specifier, jenkinsfile_content, is_modular,
                   shared_library, module_name, last_run, now, gjcLocals,
                   csv_writes, fnVars>>

\* line 85: scm_url.startswith raises AttributeError on None
ConvertScmUrl ==
    /\ pc = "convert_scm_url"
    /\ IF ~IsStr(scm_url)
       THEN Abort /\ UNCHANGED scm_url
       ELSE scm_url' = convert_scm_url(scm_url) /\ pc' = "get_jenkinsfile_path"
    /\ UNCHANGED <<answers, root_status, status_code, jobs, index, processed_jobs, pipeline_type, jenkinsfile_path,
                   branch_specifier, jenkinsfile_content, is_modular,
                   shared_library, module_name, last_run, now, gjcLocals,
                   requests, csv_writes, fnVars>>

\* line 88
GetJenkinsfilePath(Responses) ==
    /\ pc = "get_jenkinsfile_path"
    /\ JenkinsRequest(<<"config.xml">>)
    /\ \E r \in Responses :
          /\ status_code' = StatusCode(r)
          /\ answers' = Recorded("config", r)
          /\ IF ConfigRaises(r)
             THEN Abort /\ UNCHANGED jenkinsfile_path
             ELSE jenkinsfile_path' = get_jenkinsfile_path(r) /\ pc' = "get_branch_specifier"
    /\ UNCHANGED <<root_status, jobs, index, processed_jobs, pipeline_type, scm_url,
                   branch_specifier, jenkinsfile_content, is_modular,
                   shared_library, module_name, last_run, now, gjcLocals,
                   csv_writes, fnVars>>

\* line 91
GetBranchSpecifier(Responses) ==
    /\ pc = "get_branch_specifier"
    /\ JenkinsRequest(<<"config.xml">>)
    /\ \E r \in Responses :
          /\ status_code' = StatusCode(r)
          /\ answers' = Recorded("config", r)
          /\ IF ConfigRaises(r)
             THEN Abort /\ UNCHANGED branch_specifier
             ELSE branch_specifier' = get_branch_specifier(r) /\ pc' = "classify"
    /\ UNCHANGED <<root_status, jobs, index, processed_jobs, pipeline_type, scm_url,
                   jenkinsfile_path, jenkinsfile_content, is_modular,
                   shared_library, module_name, last_run, now, gjcLocals,
                   csv_writes, fnVars>>

\* a test on the pipeline type that only knows the inline pipeline script
NoJenkinsfileTypes_script_only == {"Pipeline Script"}

\* line 98: the pipeline types main() fetches no Jenkinsfile for
NoJenkinsfileTypes == {"Pipeline Script", "Unknown or not a Pipeline job"}

\* lines 94-105: reset of the two fields, then the test on the pipeline type
Classify ==
    /\ pc = "classify"
    /\ shared_library' = NA
    /\ module_name' = NA
    /\ IF pipeline_type \in NoJenkinsfileTypes
       THEN is_modular' = "False" /\ pc' = "fetch_last_run"
       ELSE pc' = "gjc_enter" /\ UNCHANGED is_modular
    /\ UNCHANGED <<answers, root_status, status_code, jobs, index, processed_jobs, pipeline_type, scm_url,
                   jenkinsfile_path, branch_specifier, jenkinsfile_content,
                   last_run, now, gjcLocals, requests, csv_writes, fnVars>>

\* the early return taken for an NA URL only
ReturnsAtOnce_url_only(url, path) == url = NA

\* line 93: the test of the early return of get_jenkinsfile_content
ReturnsAtOnce(url, path) == url = NA \/ path = NA

\* get_jenkinsfile_content, lines 93-104: the early return and the branches.
\* str methods called on None raise AttributeError.
GjcEnter ==
    /\ pc = "gjc_enter"
    /\ IF ReturnsAtOnce(scm_url, jenkinsfile_path)
       THEN /\ jenkinsfile_content' = None
            /\ pc' = "gjc_return"
            /\ UNCHANGED gjcLocals
       ELSE IF ~IsStr(branch_specifier) \/ ~IsStr(jenkinsfile_path) \/ ~IsStr(scm_url)
       THEN Abort /\ UNCHANGED <<jenkinsfile_content, gjcLocals>>
       ELSE /\ branches_to_try' = BranchesToTry(branch_specifier)
            /\ attempt' = 1
            /\ pc' = "gjc_attempt"
            /\ UNCHANGED <<jenkinsfile_content, response>>
    /\ UNCHANGED <<answers, root_status, status_code, jobs, index, processed_jobs, pipeline_type, scm_url,
                   jenkinsfile_path, branch_specifier, is_modular,
                   shared_library, module_name, last_run, now,
                   requests, csv_writes, fnVars>>

\* get_jenkinsfile_content, lines 106-158: one pass of the loop over the
\* branches, with the return after the last one
GjcAttempt(Responses) ==
    /\ pc = "gjc_attempt"
    /\ \E r \in Responses :
          /\ requests' = Append(requests,
                 [job |-> index, to |-> "gitlab", what |-> branches_to_try[attempt]])
          /\ response' = r
          /\ answers' = Recorded("gitlab", r)
          /\ IF r.raised
             THEN Abort /\ UNCHANGED <<jenkinsfile_content, attempt>>
             ELSE IF r.status = 200
             THEN /\ jenkinsfile_content' = r.body
                  /\ pc' = "gjc_return"
                  /\ UNCHANGED attempt
             ELSE IF ErrorSentinel(r.body) # None
             THEN /\ jenkinsfile_content' = ErrorSentinel(r.body)
                  /\ pc' = "gjc_return"
                  /\ UNCHANGED attempt
             ELSE IF attempt < Len(branches_to_try)
             THEN /\ attempt' = attempt + 1
                  /\ pc' = "gjc_attempt"
                  /\ UNCHANGED jenkinsfile_content
             ELSE /\ jenkinsfile_content' = None
                  /\ pc' = "gjc_return"
                  /\ UNCHANGED attempt
    /\ UNCHANGED <<root_status, status_code, jobs, index, processed_jobs, pipeline_type, scm_url,
                   jenkinsfile_path, branch_specifier, is_modular,
                   shared_library, module_name, last_run, now,
                   branches_to_try, csv_writes, fnVars>>

\* Python truth value of is_modular (a bool or a non-empty string)
Truthy(v) == v # "False"

\* lines 108-117
ClassifyContent ==
    /\ pc = "gjc_return"
    /\ LET modular == check_modularity(jenkinsfile_content)
           library == parse_shared_library(jenkinsfile_content)
       IN  /\ is_modular' = modular
           /\ shared_library' = IF Truthy(modular) THEN library ELSE shared_library
           /\ module_name' =
                 IF ~Truthy(modular) THEN module_name
                 ELSE IF library = NoSharedLibrary THEN NA
                 ELSE parse_module_name(jenkinsfile_content)
    /\ pc' = "fetch_last_run"
    /\ UNCHANGED <<answers, root_status, status_code, jobs, index, processed_jobs, pipeline_type, scm_url,
                   jenkinsfile_path, branch_specifier, jenkinsfile_content,
                   last_run, now, gjcLocals, requests, csv_writes, fnVars>>

\* lines 126-134: the staleness flag of a last run read at time t
OlderThanThreeMonths(run, t) ==
    IF run = NoLastRun THEN TRUE ELSE is_older_than_three_months(run, t)

\* lines 120-141: team, last run, staleness, and the row of the job
FetchLastRunAndAppend(Responses, Readings) ==
    /\ pc = "fetch_last_run"
    /\ JenkinsRequest(<<"lastBuild">>)
    /\ \E r \in Responses, t \in Readings :
          /\ status_code' = StatusCode(r)
          /\ answers' = IF answers.on
                        THEN [answers EXCEPT !.last_build = Append(@, r),
                                             !.clock = Append(@, t)]
                        ELSE answers
          /\ IF LastBuildRaises(r)
             THEN Abort /\ UNCHANGED <<last_run, now, processed_jobs>>
             ELSE LET run == fetch_last_run(r)
                      job == jobs[index]
                  IN  /\ last_run' = run
                      /\ now' = IF run = NoLastRun THEN now ELSE t
                      /\ processed_jobs' = Append(processed_jobs,
                           [job_name |-> job.job_name,
                            path |-> job.current_path,
                            job_url |-> job.job_url,
                            team |-> Team(job.current_path),
                            pipeline_type |-> pipeline_type,
                            scm_url |-> scm_url,
                            jenkinsfile_path |-> jenkinsfile_path,
                            branch_specifier |-> branch_specifier,
                            is_modular |-> is_modular,
                            shared_library |-> shared_library,
                            shared_library_module |-> module_name,
                            last_run |-> IF run = NoLastRun THEN <<"No Runs">>
                                         ELSE Strftime(run),
                            Is_last_run_old |-> OlderThanThreeMonths(run, t)])
                      /\ pc' = "for"
    /\ UNCHANGED <<root_status, jobs, index, pipeline_type, scm_url, jenkinsfile_path,
                   branch_specifier, jenkinsfile_content, is_modular,
                   shared_library, module_name, gjcLocals, csv_writes, fnVars>>

\* save_to_csv that stops after the header row
SaveToCsv_header_only ==
    /\ pc = "save_to_csv"
    /\ \E opened \in BOOLEAN :
          IF opened
          THEN /\ csv_writes' = Append(csv_writes, [header |-> Header, rows |-> <<>>])
               /\ pc' = "done"
          ELSE Abort /\ UNCHANGED csv_writes
    /\ UNCHANGED <<answers, root_status, status_code, jobs, index, processed_jobs, jobLocals,
                   gjcLocals, requests, fnVars>>

\* line 144: save_to_csv writes the header and the rows, in the order of the
\* list; open() raises when the file cannot be created
SaveToCsv ==
    /\ pc = "save_to_csv"
    /\ \E opened \in BOOLEAN :
          IF opened
          THEN /\ csv_writes' = Append(csv_writes, [header |-> Header, rows |-> processed_jobs])
               /\ pc' = "done"
          ELSE Abort /\ UNCHANGED csv_writes
    /\ UNCHANGED <<answers, root_status, status_code, jobs, index, processed_jobs, jobLocals,
                   gjcLocals, requests, fnVars>>

\* the answers the servers give during a whole run
RunConfigResponses ==
    {[raised |-> FALSE, status |-> 200, body |-> d] :
        d \in {MalformedDoc, ScriptDoc,
               ScmDoc(None, JenkinsfileName, Absent),
               ScmDoc(SshRepoUrl, JenkinsfileName, Absent)}}
    \cup {[raised |-> FALSE, status |-> 404, body |-> MalformedDoc],
          [raised |-> TRUE, status |-> 0, body |-> MalformedDoc]}

RunGitlabResponses ==
    {[raised |-> FALSE, status |-> 200, body |-> ModularWithTeamFirst],
     [raised |-> FALSE, status |-> 404, body |-> <<"404", " ", "Project Not Found">>],
     [raised |-> FALSE, status |-> 404, body |-> <<"500", " ", "Internal Server Error">>],
     [raised |-> TRUE, status |-> 0, body |-> <<>>]}

RunClock == {ThresholdDays + 10}

RunLastBuildResponses ==
    {[raised |-> FALSE, status |-> 200, json |-> "timestamp", timestamp |-> t] :
        t \in {c - ThresholdDays - 1 : c \in RunClock}}
    \cup {[raised |-> FALSE, status |-> 200, json |-> "not json", timestamp |-> 0],
          [raised |-> FALSE, status |-> 404, json |-> "not json", timestamp |-> 0],
          [raised |-> TRUE, status |-> 0, json |-> "not json", timestamp |-> 0]}

Next ==
    \/ GetCrumb
    \/ FetchJobs
    \/ ForNextJob
    \/ GetPipelineType(RunConfigResponses)
    \/ GetScmUrl(RunConfigResponses)
    \/ ConvertScmUrl
    \/ GetJenkinsfilePath(RunConfigResponses)
    \/ GetBranchSpecifier(RunConfigResponses)
    \/ Classify
    \/ GjcEnter
    \/ GjcAttempt(RunGitlabResponses)
    \/ ClassifyContent
    \/ FetchLastRunAndAppend(RunLastBuildResponses, RunClock)
    \/ SaveToCsv

Spec == Init /\ [][Next]_vars

-----------------------------------------------------------------------------
(* One pass of the loop of main() with every answer the servers can give:   *)
(* the first pass of a run, or the pass that follows a modular job           *)

OneJobLists ==
    { fetch_jobs(<<Leaf(RootUrl, "a")>>, RootUrl, <<>>),
      fetch_jobs(<<Folder(RootUrl, "team", <<Leaf(TeamUrl, "b")>>)>>, RootUrl, <<>>) }

TwoJobList ==
    fetch_jobs(<<Folder(RootUrl, "team", <<Leaf(TeamUrl, "a")>>), Leaf(RootUrl, "a")>>, RootUrl, <<>>)

\* the first pass of a run
FirstPass ==
    /\ jobs \in OneJobLists
    /\ index = 0
    /\ processed_jobs = <<>>
    /\ pipeline_type = "<unset>"
    /\ scm_url = Unset
    /\ jenkinsfile_path = Unset
    /\ branch_specifier = Unset
    /\ jenkinsfile_content = Unset
    /\ is_modular = "<unset>"
    /\ shared_library = Unset
    /\ module_name = Unset
    /\ last_run = NoLastRun
    /\ now = 0
    /\ GjcIdle
    /\ requests = <<>>

\* the run after the pass for a modular job whose last build is old
AfterModularJob ==
    /\ jobs = TwoJobList
    /\ index = 1
    /\ pipeline_type = "Pipeline Script from SCM"
    /\ scm_url = HttpsRepoUrl
    /\ jenkinsfile_path = JenkinsfileName
    /\ branch_specifier = DevBranch
    /\ jenkinsfile_content = ModularWithTeamFirst
    /\ is_modular = "True"
    /\ shared_library = <<"team-lib">>
    /\ module_name = <<"Foo">>
    /\ last_run = 9
    /\ now = 100
    /\ branches_to_try = << <<"dev">> >>
    /\ attempt = 1
    /\ response = [raised |-> FALSE, status |-> 200, body |-> ModularWithTeamFirst]
    /\ processed_jobs =
          <<[job_name |-> <<"a">>,
             path |-> <<"team", " -> ", "a">>,
             job_url |-> TeamUrl \o <<"job", "/", "a", "/">>,
             team |-> <<"team">>,
             pipeline_type |-> "Pipeline Script from SCM",
             scm_url |-> HttpsRepoUrl,
             jenkinsfile_path |-> JenkinsfileName,
             branch_specifier |-> DevBranch,
             is_modular |-> "True",
             shared_library |-> <<"team-lib">>,
             shared_library_module |-> <<"Foo">>,
             last_run |-> <<"9">>,
             Is_last_run_old |-> TRUE]>>
    /\ requests =
          <<[job |-> 1, to |-> "jenkins", what |-> <<"config.xml">>],
            [job |-> 1, to |-> "jenkins", what |-> <<"config.xml">>],
            [job |-> 1, to |-> "jenkins", what |-> <<"config.xml">>],
            [job |-> 1, to |-> "jenkins", what |-> <<"config.xml">>],
            [job |-> 1, to |-> "gitlab", what |-> <<"dev">>],
            [job |-> 1, to |-> "jenkins", what |-> <<"lastBuild">>]>>

InitJob ==
    /\ pc = "for"
    /\ root_status = 200
    /\ answers = NotRecorded
    /\ csv_writes = <<>>
    /\ status_code = 200
    /\ FirstPass \/ AfterModularJob
    /\ FnIdle

NextJob ==
    \/ ForNextJob
    \/ GetPipelineType(ConfigResponses)
    \/ GetScmUrl(ConfigResponses)
    \/ ConvertScmUrl
    \/ GetJenkinsfilePath(ConfigResponses)
    \/ GetBranchSpecifier(ConfigResponses)
    \/ Classify
    \/ GjcEnter
    \/ GjcAttempt(GitlabResponses)
    \/ ClassifyContent
    \/ FetchLastRunAndAppend(LastBuildResponses, Clock)
    \/ SaveToCsv

SpecJob == InitJob /\ [][NextJob]_vars

-----------------------------------------------------------------------------
(* get_jenkinsfile_content called on its own *)

ContentUrls == {NA, HttpsRepoUrl, <<"https", ":", "/", "/", "h", "/", "g">>}

ContentPaths == {NA, JenkinsfileName, <<"Jenkinsfile">>, None}

ContentBranches ==
    {AnyBranch, <<"Any">>, DevBranch, <<"main">>, <<"*", "/", "*", "/", "x">>, None}

InitContent ==
    /\ pc = "gjc_enter"
    /\ RunIdle
    /\ GjcIdle
    /\ FnIdle
    /\ pipeline_type = "Pipeline Script from SCM"
    /\ scm_url \in ContentUrls
    /\ jenkinsfile_path \in ContentPaths
    /\ branch_specifier \in ContentBranches
    /\ jenkinsfile_content = Unset
    /\ is_modular = "<unset>"
    /\ shared_library = NA
    /\ module_name = NA
    /\ last_run = NoLastRun
    /\ now = 0

NextContent ==
    \/ GjcEnter
    \/ GjcAttempt(GitlabResponses)

SpecContent == InitContent /\ [][NextContent]_vars
-----------------------------------------------------------------------------
(* One pass of the loop of main() with the history of its answers kept *)

PassConfigResponses ==
    {[raised |-> FALSE, status |-> 200, body |-> d] :
        d \in {ScriptDoc,
               ScmDoc(SshRepoUrl, JenkinsfileName, DevBranch),
               ScmDoc(HttpsRepoUrl, JenkinsfileName, Absent)}}
    \cup {[raised |-> FALSE, status |-> 404, body |-> MalformedDoc],
          [raised |-> TRUE, status |-> 0, body |-> MalformedDoc]}

PassGitlabResponses ==
    {[raised |-> FALSE, status |-> 200, body |-> j] :
        j \in {ModularWithTeamSecond, ModularOnly, PlainPipeline}}
    \cup {[raised |-> FALSE, status |-> 404, body |-> b] :
             b \in {<<"404", " ", "Project Not Found">>,
                    <<"500", " ", "Internal Server Error">>}}

PassLastBuildResponses ==
    {[raised |-> FALSE, status |-> 200, json |-> "timestamp", timestamp |-> t] :
        t \in {c - ThresholdDays + 1 : c \in RunClock}}
    \cup {[raised |-> FALSE, status |-> 404, json |-> "not json", timestamp |-> 0]}

\* the answers the job of AfterModularJob received
AnswersOfModularJob ==
    [on |-> TRUE,
     config |-> [i \in 1..4 |->
                   [raised |-> FALSE, status |-> 200,
                    body |-> ScmDoc(HttpsRepoUrl, JenkinsfileName, DevBranch)]],
     gitlab |-> <<[raised |-> FALSE, status |-> 200, body |-> ModularWithTeamFirst]>>,
     last_build |-> <<[raised |-> FALSE, status |-> 200, json |-> "timestamp",
                       timestamp |-> 9]>>,
     clock |-> <<100>>]

InitIsolation ==
    /\ pc = "for"
    /\ root_status = 200
    /\ status_code = 200
    /\ csv_writes = <<>>
    /\ FnIdle
    /\ \/ FirstPass /\ answers = NoAnswersYet
       \/ AfterModularJob /\ answers = AnswersOfModularJob

NextIsolation ==
    \/ ForNextJob
    \/ GetPipelineType(PassConfigResponses)
    \/ GetScmUrl(PassConfigResponses)
    \/ ConvertScmUrl
    \/ GetJenkinsfilePath(PassConfigResponses)
    \/ GetBranchSpecifier(PassConfigResponses)
    \/ Classify
    \/ GjcEnter
    \/ GjcAttempt(PassGitlabResponses)
    \/ ClassifyContent
    \/ FetchLastRunAndAppend(PassLastBuildResponses, RunClock)
    \/ SaveToCsv

SpecIsolation == InitIsolation /\ [][NextIsolation]_vars
-----------------------------------------------------------------------------
(* convert_scm_url applied to bounded inputs *)

MaxUrlLen == 4

UrlAlphabet == {"git", "@", ":", "/", "\n", "https", "h"}

Users == {<<"git">>, <<"u">>}

Protocols == {<<"ssh">>, <<"git">>, <<"http">>}

Hosts == {<<"h">>, <<"h", ".", "org">>}

Paths == {<<"g", "/", "p", ".", "git">>, <<"g">>, <<"g", ":", "p">>}

SshUrl(user, host, path) == user \o <<"@">> \o host \o <<":">> \o path

ProtocolUrl(proto, host, path) == proto \o <<":", "/", "/">> \o host \o <<":">> \o path

HttpsUrl(host, path) == HttpsPrefix \o host \o <<"/">> \o path

SshStyleUrls ==
    {SshUrl(u, h, p) : u \in Users, h \in Hosts, p \in Paths}
    \cup {ProtocolUrl(r, h, p) : r \in Protocols, h \in Hosts, p \in Paths}

UrlInputs == SeqsUpTo(UrlAlphabet, MaxUrlLen) \cup SshStyleUrls \cup {NA}

InitConvert ==
    /\ pc = "apply"
    /\ MainIdle
    /\ fn_in \in UrlInputs
    /\ fn_out = <<>>

ApplyConvert ==
    /\ Len(fn_out) < 2
    /\ fn_out' = Append(fn_out,
                        convert_scm_url(IF fn_out = <<>> THEN fn_in
                                        ELSE fn_out[Len(fn_out)]))
    /\ UNCHANGED <<fn_in, mainVars>>

NextConvert == ApplyConvert

SpecConvert == InitConvert /\ [][NextConvert]_vars

-----------------------------------------------------------------------------
(* parse_shared_library applied to bounded inputs *)

MaxLibraries == 3

LibraryNames == {ModularLibrary, "team-lib", "other-lib"}

\* the ways a Jenkinsfile separates two quoted names of the list
NameSeparators == {<<"'", ",", "'">>, <<"'", ",", " ", "'">>}

NameLists == UNION {[1..k -> LibraryNames] : k \in 1..MaxLibraries}

RECURSIVE JoinNames(_, _)
JoinNames(names, sep) ==
    IF Len(names) = 1 THEN <<names[1]>>
    ELSE <<names[1]>> \o sep \o JoinNames(Tail(names), sep)

\* @Library(['n1','n2',...])_
Directive(names, sep) == LibOpen \o JoinNames(names, sep) \o LibClose

LinesBefore == {<<>>, <<"x", "\n">>}

LinesAfter == {<<>>, <<"\n", "Foo", "(", ")">>}

\* texts without a directive of the exact bracketed form
NoDirectiveTexts ==
    { <<>>,
      <<"Foo", "(", ")">>,
      <<"@", "Library", "(", "'", "team-lib", "'", ")", "_">>,
      <<"@", "Library", "(", "[", "'", "team-lib", "'", "]", ")">>,
      <<"@", "Library", "(", "[", "'", "'", "]", ")", "_">>,
      <<"library", " ", "team-lib">> }

LibraryInputs ==
    {b \o Directive(n, sep) \o a :
        b \in LinesBefore, n \in NameLists, sep \in NameSeparators, a \in LinesAfter}
    \cup NoDirectiveTexts \cup {None}

InitLibrary ==
    /\ pc = "apply"
    /\ MainIdle
    /\ fn_in \in LibraryInputs
    /\ fn_out = <<>>

ApplyParseSharedLibrary ==
    /\ fn_out = <<>>
    /\ fn_out' = <<parse_shared_library(fn_in)>>
    /\ UNCHANGED <<fn_in, mainVars>>

NextLibrary == ApplyParseSharedLibrary

SpecLibrary == InitLibrary /\ [][NextLibrary]_vars

\* the first name of the list that is not the modular library, 0 if none
FirstOtherName(names) == FirstNotIn(names, 1, {ModularLibrary})

\* C3: on a directive @Library(['n1','n2',...])_ parse_shared_library returns
\* the first listed name that is not cicd-modular-library, or No Shared
\* Library when none remains; it returns No Shared Library when there is no
\* directive or the input is not a string, and never cicd-modular-library.
C3_FirstOtherLibrary ==
    fn_out # <<>> =>
        /\ fn_out[1] # <<ModularLibrary>>
        /\ (fn_in \in NoDirectiveTexts \cup {None} => fn_out[1] = NoSharedLibrary)
        /\ \A b \in LinesBefore, n \in NameLists, sep \in NameSeparators, a \in LinesAfter :
              fn_in = b \o Directive(n, sep) \o a =>
                  fn_out[1] = IF FirstOtherName(n) > Len(n) THEN NoSharedLibrary
                              ELSE <<n[FirstOtherName(n)]>>

-----------------------------------------------------------------------------
(* parse_module_name applied to bounded inputs *)

MaxModuleTextLen == 5

ModuleAlphabet == {"Library", "Foo", "(", "\n", " ", "@", "team-lib"}

ModuleExamples ==
    { <<"Library", "(", "x", ")", "\n", "Foo", "(", "y", ")">>,
      Directive(<<ModularLibrary>>, <<>>) \o <<"\n", "BigDataGenericPipeline", "(", "x", ")">>,
      <<"x", " ", "=", " ", "y", "\n">> }

ModuleInputs == SeqsUpTo(ModuleAlphabet, MaxModuleTextLen) \cup ModuleExamples \cup {None}

InitModule ==
    /\ pc = "apply"
    /\ MainIdle
    /\ fn_in \in ModuleInputs
    /\ fn_out = <<>>

ApplyParseModuleName ==
    /\ fn_out = <<>>
    /\ fn_out' = <<parse_module_name(fn_in)>>
    /\ UNCHANGED <<fn_in, mainVars>>

NextModule == ApplyParseModuleName

SpecModule == InitModule /\ [][NextModule]_vars

\* the identifier of the first match that is not named Library
FirstQualifyingIdentifier(content) ==
    IF ~IsStr(content) THEN NoModuleDetected
    ELSE LET s == content
             starts == {p \in 1..Len(s) :
                           ModuleMatchAt(s, p) \notin {<<>>, <<"Library">>}}
         IN  IF starts = {} THEN NoModuleDetected
             ELSE ModuleMatchAt(s, CHOOSE i \in starts : \A j \in starts : i <= j)

\* C8: parse_module_name returns the identifier of the first line of the
\* form <identifier>( whose identifier is not Library, skipping the lines
\* whose identifier is Library, and No Module Detected only when there is no
\* such line or the input is not a string.
C8_FirstQualifyingIdentifier ==
    fn_out # <<>> => fn_out[1] = FirstQualifyingIdentifier(fn_in)

-----------------------------------------------------------------------------
(* fetch_jobs applied to the job trees of a server *)

MaxNodes == 4

JobNames == {"a", "b"}

HasSibling(listing, n) == \E i \in 1..Len(listing) : listing[i].name = <<n>>

\* the listings under parent_url that hold n jobs and folders in all, the
\* names of the entries of one folder being distinct
RECURSIVE Forests(_, _)
Forests(parent_url, n) ==
    IF n = 0 THEN {<<>>}
    ELSE UNION {
           LET firsts ==
                 (IF k = 1 THEN {Leaf(parent_url, name)} ELSE {})
                 \cup {Folder(parent_url, name, c) :
                          c \in Forests(parent_url \o <<"job", "/", name, "/">>, k - 1)}
               rests == {f \in Forests(parent_url, n - k) : ~HasSibling(f, name)}
           IN  {<<first>> \o rest : first \in firsts, rest \in rests}
           : name \in JobNames, k \in 1..n }

ServerTrees == UNION {Forests(RootUrl, n) : n \in 0..MaxNodes}

InitFetch ==
    /\ pc = "apply"
    /\ MainIdle
    /\ fn_in \in ServerTrees
    /\ fn_out = <<>>

ApplyFetchJobs ==
    /\ fn_out = <<>>
    /\ fn_out' = <<fetch_jobs(fn_in, RootUrl, <<>>)>>
    /\ UNCHANGED <<fn_in, mainVars>>

NextFetch == ApplyFetchJobs

SpecFetch == InitFetch /\ [][NextFetch]_vars

\* names joined by " -> "
RECURSIVE JoinPath(_)
JoinPath(names) ==
    IF Len(names) = 1 THEN names[1]
    ELSE names[1] \o <<PathSeparator>> \o JoinPath(Tail(names))

\* the leaves of a tree, each with the names of its ancestors
RECURSIVE LeafEntries(_, _)
LeafEntries(listing, ancestors) ==
    UNION { LET node == listing[i]
                names == Append(ancestors, node.name)
            IN  IF "jobs" \in DOMAIN node
                THEN LeafEntries(node.jobs, names)
                ELSE {[job_name |-> node.name, current_path |-> JoinPath(names),
                       job_url |-> node.url]}
            : i \in 1..Len(listing) }

\* C16: fetch_jobs returns the leaves of the job tree and nothing else, each
\* once, whatever their depth; the path of a leaf is the names of its
\* ancestor folders and its own name joined by " -> "; folders, empty ones
\* included, give no entry.
C16_ExactlyTheLeaves ==
    Len(fn_out) = 1 =>
        LET out == fn_out[1]
        IN  /\ {out[i] : i \in 1..Len(out)} = LeafEntries(fn_in, <<>>)
            /\ \A i, j \in 1..Len(out) : i # j => out[i] # out[j]
            /\ \A i \in 1..Len(out) : "jobs" \notin DOMAIN out[i]

C16_Witness ==
    /\ fn_in = <<Folder(RootUrl, "a",
                   <<Folder(RootUrl \o <<"job", "/", "a", "/">>, "b",
                        <<Leaf(RootUrl \o <<"job", "/", "a", "/", "job", "/", "b", "/">>, "a")>>)>>),
                 Folder(RootUrl, "b", <<>>)>>
    /\ Len(fn_out) = 1
    /\ Len(fn_out[1]) = 1
    /\ fn_out[1][1].current_path = <<"a", " -> ", "b", " -> ", "a">>
-----------------------------------------------------------------------------
(* Claims about convert_scm_url *)

\* C6: for every URL user@host:path (any user) or protocol://host:path,
\* convert_scm_url returns exactly https://host/path.
C6_SshStyleBecomesHttps ==
    \A h \in Hosts, p \in Paths :
        /\ \A u \in Users :
              (fn_in = SshUrl(u, h, p) /\ Len(fn_out) >= 1)
                  => fn_out[1] = HttpsUrl(h, p)
        /\ \A r \in Protocols :
              (fn_in = ProtocolUrl(r, h, p) /\ Len(fn_out) >= 1)
                  => fn_out[1] = HttpsUrl(h, p)

\* C7 as stated: convert_scm_url is idempotent for every input string and
\* returns every https:// string unchanged.
C7_IdempotentForEveryString ==
    /\ Len(fn_out) = 2 => fn_out[2] = fn_out[1]
    /\ (Len(fn_out) >= 1 /\ StartsWith(fn_in, HttpsPrefix)) => fn_out[1] = fn_in

\* the first ":" of s, if any, has no line break before it
NoBreakBeforeFirstColon(s) ==
    \A i \in 1..Len(s) :
        s[i] = ":" => \A j \in 1..(i - 1) : s[j] # "\n" \/ \E k \in 1..(j - 1) : s[k] = ":"

\* C7 (amended): convert_scm_url is idempotent for every input string whose
\* first ":" (if any) is not preceded by a line break, and returns every
\* string starting with https:// unchanged.
C7_IdempotentOnSingleLine ==
    /\ (Len(fn_out) = 2 /\ NoBreakBeforeFirstColon(fn_in)) => fn_out[2] = fn_out[1]
    /\ (Len(fn_out) >= 1 /\ StartsWith(fn_in, HttpsPrefix)) => fn_out[1] = fn_in

C7_Witness ==
    /\ fn_in = <<"git", "@", "h", ":">>
    /\ Len(fn_out) = 2
    /\ fn_out[1] = <<"https", ":", "/", "/", "h", "/">>

-----------------------------------------------------------------------------
(* Claims about main() *)

GitlabRequestsOf(i) ==
    SelectSeq(requests, LAMBDA q : q.job = i /\ q.to = "gitlab")

\* C1: whatever the per-job requests answer, main() appends exactly one row
\* per job returned by fetch_jobs, the i-th row for the i-th job, and
\* save_to_csv receives as many rows as there are jobs.
C1_OneRowPerJob ==
    pc \in {"done", "aborted"} =>
        /\ Len(processed_jobs) = Len(jobs)
        /\ \A i \in 1..Len(processed_jobs) :
              processed_jobs[i].job_url = jobs[i].job_url
        /\ pc = "done" => /\ Len(csv_writes) = 1
                          /\ Len(csv_writes[1].rows) = Len(jobs)

\* C2: a row whose pipeline type is Pipeline Script or Unknown has is_modular
\* False and both library fields NA, whatever its SCM URL, Jenkinsfile path
\* and branch are, and no GitLab request was issued for its job.
C2_NoJenkinsfileNotModular ==
    \A i \in 1..Len(processed_jobs) :
        processed_jobs[i].pipeline_type
                \in {"Pipeline Script", "Unknown or not a Pipeline job"}
            => /\ processed_jobs[i].is_modular = "False"
               /\ processed_jobs[i].shared_library = <<"NA">>
               /\ processed_jobs[i].shared_library_module = <<"NA">>
               /\ GitlabRequestsOf(i) = <<>>

C2_Witness ==
    \E i \in 1..Len(processed_jobs) :
        /\ processed_jobs[i].pipeline_type = "Unknown or not a Pipeline job"
        /\ processed_jobs[i].scm_url = HttpsRepoUrl
        /\ processed_jobs[i].jenkinsfile_path = JenkinsfileName
        /\ processed_jobs[i].branch_specifier = DevBranch
        /\ processed_jobs[i].is_modular = "False"

\* C9: the staleness flag of the row appended last is True when the job has
\* no recorded run, and otherwise True exactly when the last run is more than
\* 90 days before the clock reading: True at 91 days, False at 90 and at 89.
C9_StaleAfterNinetyDays ==
    processed_jobs # <<>> =>
        LET row == processed_jobs[Len(processed_jobs)]
        IN  /\ last_run = NoLastRun =>
                  row.Is_last_run_old = TRUE /\ row.last_run = <<"No Runs">>
            /\ last_run # NoLastRun =>
                  /\ row.last_run # <<"No Runs">>
                  /\ row.Is_last_run_old = (now - last_run > 90)
                  /\ now - last_run = 91 => row.Is_last_run_old = TRUE
                  /\ now - last_run \in {89, 90} => row.Is_last_run_old = FALSE

C9_Witness ==
    /\ processed_jobs # <<>>
    /\ last_run # NoLastRun
    /\ now - last_run = 90
    /\ processed_jobs[Len(processed_jobs)].Is_last_run_old = FALSE

\* C10: when the root job-list query gets a non-success answer the run
\* aborts: no per-job request is made and save_to_csv is never called.
C10_RootFailureAborts ==
    root_status \notin {0, 200} =>
        /\ pc = "aborted"
        /\ requests = <<>>
        /\ csv_writes = <<>>

-----------------------------------------------------------------------------
(* Claims about get_jenkinsfile_content *)

DefaultBranchesCall ==
    /\ branch_specifier \in {<<"*", "*">>, <<"Any">>}
    /\ scm_url # <<"NA">>
    /\ jenkinsfile_path # <<"NA">>

BranchesRequested == [i \in 1..Len(requests) |-> requests[i].what]

HasErrorText(text) ==
    \/ Contains(text, "Project Not Found")
    \/ Contains(text, "File Not Found")
    \/ Contains(text, "Commit Not Found")

\* main is tried first and master second; a 200 ends the call with the body
\* of that response and nothing is requested after it
C4_MainThenMaster ==
    (DefaultBranchesCall /\ pc \in {"gjc_attempt", "gjc_return"}) =>
        /\ BranchesRequested \in {<<>>, << <<"main">> >>, << <<"main">>, <<"master">> >>}
        /\ Len(requests) = 2 => pc = "gjc_return"
        /\ (pc = "gjc_attempt" /\ Len(requests) = 1) => response.status # 200
        /\ (pc = "gjc_return" /\ response.status = 200) =>
              jenkinsfile_content = response.body

\* C4 as stated: with branch specifier ** or Any, main then master are tried
\* in that order, the first 200 ends the call with its body, and master is
\* requested whenever main did not return 200.
C4_MasterWheneverMainNot200 ==
    /\ C4_MainThenMaster
    /\ (DefaultBranchesCall /\ pc = "gjc_return" /\ Len(requests) = 1) =>
          response.status = 200

\* C4 (amended): with branch specifier ** or Any, main then master are tried
\* in that order, the first 200 ends the call with its body, and master is
\* requested exactly when main returned a non-200 response whose body holds
\* none of Project Not Found, File Not Found, Commit Not Found.
C4_MasterWhenMainFailsUnrecognised ==
    /\ C4_MainThenMaster
    /\ (DefaultBranchesCall /\ pc = "gjc_return" /\ Len(requests) = 1) =>
          (response.status = 200 \/ HasErrorText(response.body))
    /\ (DefaultBranchesCall /\ pc = "gjc_attempt" /\ Len(requests) = 1) =>
          ~HasErrorText(response.body)

C4_Witness ==
    /\ DefaultBranchesCall
    /\ pc = "gjc_return"
    /\ BranchesRequested = << <<"main">>, <<"master">> >>
    /\ response.status = 200
    /\ jenkinsfile_content = ModularOnly

\* C5: a non-200 attempt whose body holds Project Not Found, File Not Found
\* or Commit Not Found (looked for in that order) ends the call with Project
\* Not Found, Jenkinsfile Not Found or Branch Not Found; a non-200 attempt
\* with none of them moves on to the next branch, and the call returns None
\* once every branch has failed that way.
C5_ErrorSentinels ==
    /\ (pc = "gjc_return" /\ Len(requests) >= 1 /\ response.status # 200) =>
          IF Contains(response.body, "Project Not Found")
          THEN jenkinsfile_content = <<"Project Not Found">>
          ELSE IF Contains(response.body, "File Not Found")
          THEN jenkinsfile_content = <<"Jenkinsfile Not Found">>
          ELSE IF Contains(response.body, "Commit Not Found")
          THEN jenkinsfile_content = <<"Branch Not Found">>
          ELSE /\ jenkinsfile_content = None
               /\ Len(requests) = Len(branches_to_try)
    /\ (pc = "gjc_attempt" /\ Len(requests) >= 1) =>
          /\ response.status # 200
          /\ ~HasErrorText(response.body)
          /\ attempt = Len(requests) + 1
          /\ attempt <= Len(branches_to_try)

C5_Witness ==
    /\ pc = "gjc_return"
    /\ Len(requests) = 2
    /\ response.status # 200
    /\ Contains(response.body, "Commit Not Found")
    /\ Contains(response.body, "File Not Found")
    /\ ~Contains(response.body, "Project Not Found")
    /\ jenkinsfile_content = <<"Jenkinsfile Not Found">>
-----------------------------------------------------------------------------
(* Claims about the rows of main() *)

LastRow == processed_jobs[Len(processed_jobs)]

\* Jenkins answered the request of this step with a status other than 200
FailedFetch(at) == pc = at /\ status_code' \notin {0, 200}

\* C11: a config.xml request answered with a status other than 200 gives the
\* default of its field (Unknown or not a Pipeline job, NA, NA, **) and the
\* pass goes on to its next step; a lastBuild request answered with a status
\* other than 200 appends the row of the job with last_run No Runs and
\* staleness True, and the loop goes on.
C11_FailedFetchDefaults ==
    [][ /\ FailedFetch("get_pipeline_type") =>
              /\ pipeline_type' = "Unknown or not a Pipeline job"
              /\ pc' = "get_scm_url"
        /\ FailedFetch("get_scm_url") =>
              /\ scm_url' = <<"NA">>
              /\ pc' = "convert_scm_url"
        /\ FailedFetch("get_jenkinsfile_path") =>
              /\ jenkinsfile_path' = <<"NA">>
              /\ pc' = "get_branch_specifier"
        /\ FailedFetch("get_branch_specifier") =>
              /\ branch_specifier' = <<"*", "*">>
              /\ pc' = "classify"
        /\ FailedFetch("fetch_last_run") =>
              /\ Len(processed_jobs') = Len(processed_jobs) + 1
              /\ processed_jobs'[Len(processed_jobs')].last_run = <<"No Runs">>
              /\ processed_jobs'[Len(processed_jobs')].Is_last_run_old = TRUE
              /\ pc' = "for"
      ]_vars

C11_Witness ==
    /\ pc = "for"
    /\ status_code = 404
    /\ processed_jobs # <<>>
    /\ LastRow.pipeline_type = "Unknown or not a Pipeline job"
    /\ LastRow.scm_url = <<"NA">>
    /\ LastRow.jenkinsfile_path = <<"NA">>
    /\ LastRow.branch_specifier = <<"*", "*">>
    /\ LastRow.last_run = <<"No Runs">>
    /\ LastRow.Is_last_run_old = TRUE

\* what get_jenkinsfile_content returns when the fetch failed
FetchFailures ==
    {None, <<"Project Not Found">>, <<"Jenkinsfile Not Found">>, <<"Branch Not Found">>}

\* the pass for the current job has appended its row, and the job fetches
\* its Jenkinsfile from the repository
ScmRowAppended ==
    /\ pc = "for"
    /\ index >= 1
    /\ Len(processed_jobs) = index
    /\ LastRow.pipeline_type = "Pipeline Script from SCM"

\* C12: the row of a Pipeline Script from SCM job whose Jenkinsfile fetch
\* failed (None or one of the three error sentinels was returned) has
\* is_modular Failed to fetch Jenkinsfile, shared_library No Shared Library
\* and module_name No Module Detected.
C12_FetchFailureSentinels ==
    (ScmRowAppended /\ jenkinsfile_content \in FetchFailures) =>
        /\ LastRow.is_modular = "Failed to fetch Jenkinsfile"
        /\ LastRow.shared_library = <<"No Shared Library">>
        /\ LastRow.shared_library_module = <<"No Module Detected">>

\* C13: once get_crumb and fetch_jobs have succeeded the run does not abort:
\* an abort happens before the first job is taken up, so every run that
\* enters the loop goes on to save_to_csv.
C13_PerJobErrorsCaptured ==
    pc = "aborted" => index = 0

-----------------------------------------------------------------------------
(* Claims about the output file *)

\* C14: save_to_csv writes at most once, as the last step of the run and
\* after every job has got its row; what it writes is the header followed by
\* the rows of the jobs in the order fetch_jobs returned them; a run that
\* aborts before the last job has its row writes nothing.
C14_SingleFinalWrite ==
    /\ Len(csv_writes) <= 1
    /\ csv_writes # <<>> =>
          /\ pc = "done"
          /\ index = Len(jobs)
          /\ csv_writes[1].header = Header
          /\ csv_writes[1].rows = processed_jobs
          /\ Len(csv_writes[1].rows) = Len(jobs)
          /\ \A i \in 1..Len(jobs) :
                /\ csv_writes[1].rows[i].job_name = jobs[i].job_name
                /\ csv_writes[1].rows[i].path = jobs[i].current_path
                /\ csv_writes[1].rows[i].job_url = jobs[i].job_url
    /\ pc = "done" => Len(csv_writes) = 1
    /\ (pc = "aborted" /\ Len(processed_jobs) < Len(jobs)) => csv_writes = <<>>

C14_Witness ==
    /\ pc = "done"
    /\ Len(jobs) = 2
    /\ jobs[1].job_url # jobs[2].job_url
    /\ Len(csv_writes) = 1
    /\ csv_writes[1].rows[2].job_url = jobs[2].job_url

-----------------------------------------------------------------------------
(* Claims about the early return of get_jenkinsfile_content *)

\* C15: get_jenkinsfile_content called with SCM URL NA or Jenkinsfile path NA
\* returns None at once without a request; an NA SCM URL comes out of
\* convert_scm_url as NA, so in main() no GitLab request is issued for a job
\* whose row has SCM URL NA or Jenkinsfile path NA.
C15_NoRequestForNA ==
    /\ [](\A i \in 1..Len(processed_jobs) :
             (processed_jobs[i].scm_url = <<"NA">>
                 \/ processed_jobs[i].jenkinsfile_path = <<"NA">>)
                => GitlabRequestsOf(i) = <<>>)
    /\ [][ /\ (pc = "convert_scm_url" /\ scm_url = <<"NA">>) =>
                 /\ scm_url' = <<"NA">>
                 /\ pc' = "get_jenkinsfile_path"
           /\ (pc = "gjc_enter"
                  /\ (scm_url = <<"NA">> \/ jenkinsfile_path = <<"NA">>)) =>
                 /\ jenkinsfile_content' = None
                 /\ pc' = "gjc_return"
                 /\ requests' = requests
         ]_vars

C15_Witness ==
    /\ pc = "gjc_return"
    /\ pipeline_type = "Pipeline Script from SCM"
    /\ scm_url = HttpsRepoUrl
    /\ jenkinsfile_path = <<"NA">>
    /\ jenkinsfile_content = None
    /\ GitlabRequestsOf(index) = <<>>

-----------------------------------------------------------------------------
(* Claims about the independence of the jobs *)

\* the row main() is to build from a job and the answers to its own requests
RowFrom(job, a) ==
    LET type == get_pipeline_type(a.config[1])
        url == convert_scm_url(get_scm_url(a.config[2]))
        path == get_jenkinsfile_path(a.config[3])
        branch == get_branch_specifier(a.config[4])
        fetched == type = "Pipeline Script from SCM"
        content == IF url = <<"NA">> \/ path = <<"NA">> \/ a.gitlab = <<>> THEN None
                   ELSE LET r == a.gitlab[Len(a.gitlab)]
                        IN  IF r.status = 200 THEN r.body ELSE ErrorSentinel(r.body)
        modular == IF fetched THEN check_modularity(content) ELSE "False"
        library == IF fetched /\ modular # "False"
                   THEN parse_shared_library(content) ELSE <<"NA">>
        module == IF fetched /\ modular # "False" /\ library # <<"No Shared Library">>
                  THEN parse_module_name(content) ELSE <<"NA">>
        run == fetch_last_run(a.last_build[1])
    IN  [job_name |-> job.job_name,
         path |-> job.current_path,
         job_url |-> job.job_url,
         team |-> Team(job.current_path),
         pipeline_type |-> type,
         scm_url |-> url,
         jenkinsfile_path |-> path,
         branch_specifier |-> branch,
         is_modular |-> modular,
         shared_library |-> library,
         shared_library_module |-> module,
         last_run |-> IF run = NoLastRun THEN <<"No Runs">> ELSE Strftime(run),
         Is_last_run_old |-> IF run = NoLastRun THEN TRUE
                             ELSE run < a.clock[1] - 90]

\* the row of the job of the current pass is the row of its own answers:
\* nothing an earlier pass left behind is in it
RowOfOwnAnswers ==
    (answers.on /\ pc = "for" /\ index >= 1 /\ Len(processed_jobs) = index) =>
        processed_jobs[index] = RowFrom(jobs[index], answers)

-----------------------------------------------------------------------------
(* Claims about the classification fields of a row *)

\* shared_library is NA unless the job is a Pipeline Script from SCM job with
\* a truthy is_modular; a Jenkinsfile that declares cicd-modular-library
\* alone gives No Shared Library and module_name NA although it holds a
\* module call
SharedLibraryOnlyWhenModular ==
    /\ \A i \in 1..Len(processed_jobs) :
          processed_jobs[i].shared_library # <<"NA">> =>
              /\ processed_jobs[i].pipeline_type = "Pipeline Script from SCM"
              /\ processed_jobs[i].is_modular \in {"True", "Failed to fetch Jenkinsfile"}
    /\ (ScmRowAppended /\ jenkinsfile_content = ModularOnly) =>
          /\ parse_module_name(jenkinsfile_content) = <<"Foo">>
          /\ LastRow.is_modular = "True"
          /\ LastRow.shared_library = <<"No Shared Library">>
          /\ LastRow.shared_library_module = <<"NA">>

\* C18 as stated: in every row module_name differs from NA only if is_modular
\* is True and shared_library is neither NA nor No Shared Library;
\* shared_library differs from NA only if the pipeline type is Pipeline
\* Script from SCM and is_modular is truthy; a Jenkinsfile declaring only
\* cicd-modular-library gets module_name NA.
C18_ModuleOnlyWithRealLibrary ==
    /\ SharedLibraryOnlyWhenModular
    /\ \A i \in 1..Len(processed_jobs) :
          processed_jobs[i].shared_library_module # <<"NA">> =>
              /\ processed_jobs[i].is_modular = "True"
              /\ processed_jobs[i].shared_library
                     \notin {<<"NA">>, <<"No Shared Library">>}

\* C18 (amended): in every row module_name differs from NA only if
\* is_modular is True and shared_library is not No Shared Library (it is the
\* first name the library directive gives, which may be the text NA);
\* shared_library differs from NA only if the pipeline type is Pipeline
\* Script from SCM and is_modular is truthy; a Jenkinsfile declaring only
\* cicd-modular-library gets module_name NA.
C18_ModuleOnlyWithParsedLibrary ==
    /\ SharedLibraryOnlyWhenModular
    /\ \A i \in 1..Len(processed_jobs) :
          processed_jobs[i].shared_library_module # <<"NA">> =>
              /\ processed_jobs[i].is_modular = "True"
              /\ processed_jobs[i].shared_library # <<"No Shared Library">>

C18_Witness ==
    /\ ScmRowAppended
    /\ jenkinsfile_content = ModularOnly
    /\ LastRow.is_modular = "True"
    /\ LastRow.shared_library = <<"No Shared Library">>
    /\ LastRow.shared_library_module = <<"NA">>
====
